---- MODULE Spec2Model ----
(***************************************************************************)
(* Model of cmd/dat/utils.go of dat, a migration tool:                     *)
(*   - runUpScripts / execFile / execScript: running a migration's notx    *)
(*     and up scripts and recording the ledger row;                        *)
(*   - verifyMigrationsHistory / migrationFindIndexOf: comparing the local *)
(*     migrations with the ledger.                                         *)
(*                                                                         *)
(* A text (a script, a statement) is a sequence of one-character strings.  *)
(* A migration name is a sequence of character codes, compared as Go       *)
(* compares strings (bytewise, lexicographically).                         *)
(*                                                                         *)
(* conn is the pooled connection handed to runUpScripts (a *runner.DB, as  *)
(* getAdapterAndDB returns): a statement executed on conn is committed on  *)
(* its own, one executed on tx becomes durable when tx commits.            *)
(***************************************************************************)
EXTENDS Integers, Sequences, FiniteSets, TLC

VARIABLES
    files,        \* the migration's directory: notx.sql, down.sql, up.sql
    pc,           \* position in runUpScripts
    cur,          \* the file execFile runs or has last run: "notx", "up", "none"
    script,       \* execFile's script (the text read from the file)
    statements,   \* execScript's statements (the split script)
    idx,          \* execScript's loop position, 1-based
    execRet,      \* what execScript returned, per file
    migration,    \* the *Migration being run
    txState,      \* tx: "none", "open", "committed", "rolledback"
    txPending,    \* rows written through tx, not yet committed
    ledger,       \* durable rows of dat__migrations
    applied,      \* durable effects of executed statements
    sent,         \* every statement submitted to the database, in order
    retval,       \* what runUpScripts returned
    localMigrations,  \* verifyMigrationsHistory's first list (names)
    dbMigrations,     \* verifyMigrationsHistory's second list (names)
    verified,     \* the outcome of verifyMigrationsHistory
    splitCall,    \* a split of a script: options.BatchSeparator, the script
                  \* and the statements reBatchSeparator.Split gives
    locateCall    \* a call of extractLineColumn: script, pos and the result

runVars == <<files, pc, cur, script, statements, idx, execRet, migration,
             txState, txPending, ledger, applied, sent, retval>>
verifyVars == <<localMigrations, dbMigrations, verified>>
textVars == <<splitCall, locateCall>>
vars == <<runVars, verifyVars, textVars>>

----------------------------------------------------------------------------
(* Bounds                                                                  *)

\* lines of notx.sql and up.sql together
MaxLines == 5
\* characters of a script that is split or searched for a position
MaxScriptLen == 7
\* characters of a migration name
MaxNameLen == 2
\* entries of the local list and the ledger together
MaxMigrations == 3

----------------------------------------------------------------------------
(* Texts                                                                   *)

NL == "\n"
Whitespace == {" ", "\t", "\r", NL}

\* the lines a script is written from: a statement, a blank line, a
\* separator line
ScriptLines == {<<"a">>, <<" ">>, <<"G", "O">>}

RECURSIVE JoinLines(_)
\* the text of a file whose lines are ls, every line ended by a newline
JoinLines(ls) ==
    IF ls = <<>> THEN <<>>
    ELSE Head(ls) \o <<NL>> \o JoinLines(Tail(ls))

SeqsUpTo(S, n) == UNION {[1..k -> S] : k \in 0..n}

\* reBatchSeparator = (?m)^GO\n matches s at position p
reBatchSeparator(s, p) ==
    /\ p + 2 <= Len(s)
    /\ s[p] = "G" /\ s[p + 1] = "O" /\ s[p + 2] = NL
    /\ (p = 1 \/ s[p - 1] = NL)

RECURSIVE SplitFromDropsEmptyTail(_, _, _)
\* SplitFrom without the text after the last match when it is empty
SplitFromDropsEmptyTail(s, beg, p) ==
    IF p > Len(s)
    THEN IF beg > Len(s) /\ beg > 1 THEN <<>> ELSE <<SubSeq(s, beg, Len(s))>>
    ELSE IF reBatchSeparator(s, p)
         THEN <<SubSeq(s, beg, p - 1)>>
              \o SplitFromDropsEmptyTail(s, p + 3, p + 3)
         ELSE SplitFromDropsEmptyTail(s, beg, p + 1)

RECURSIVE SplitFrom(_, _, _)
\* the texts between the matches from position p on, beg being the end of
\* the last match
SplitFrom(s, beg, p) ==
    IF p > Len(s) THEN <<SubSeq(s, beg, Len(s))>>
    ELSE IF reBatchSeparator(s, p)
         THEN <<SubSeq(s, beg, p - 1)>> \o SplitFrom(s, p + 3, p + 3)
         ELSE SplitFrom(s, beg, p + 1)

\* reBatchSeparator.Split(script, -1): the texts between the matches, the
\* one after the last match included (the empty script gives one empty text)
Split(s) == SplitFrom(s, 1, 1)

\* str.IsEmpty: the text is empty or only whitespace
IsEmpty(s) == \A i \in 1..Len(s) : s[i] \in Whitespace

----------------------------------------------------------------------------
(* Errors, files, rows                                                     *)

NoFile == "nofile"
NotYet == [type |-> "none", src |-> "none", idx |-> 0]
Nil == [type |-> "nil", src |-> "none", idx |-> 0]
\* the database's error on statement i of file src ("ledger": the insert)
DbError(src, i) == [type |-> "db", src |-> src, idx |-> i]
\* an error of ioutil.ReadFile
IoError(src) == [type |-> "io", src |-> src, idx |-> 0]
BeginError == [type |-> "begin", src |-> "none", idx |-> 0]

IsError(e) == e.type \in {"db", "io", "begin"}

MigrationName == "m1"
PriorRow == [Name |-> "m0", UpScript |-> <<"a", NL>>, DownScript |-> <<>>,
             NoTransactionScript |-> <<>>]
DownText == <<"d", NL>>

LedgerRow(m) == [Name |-> m.Name, UpScript |-> m.UpScript,
                 DownScript |-> m.DownScript,
                 NoTransactionScript |-> m.NoTransactionScript]

\* a statement submitted to the database: through conn or tx, from which
\* file and which of its statements, its text and the database's answer
Submission(via, src, i, text, outcome) ==
    [via |-> via, src |-> src, idx |-> i, text |-> text, outcome |-> outcome]

----------------------------------------------------------------------------
(* runUpScripts                                                            *)

RunInit ==
    /\ \E n \in 0..MaxLines : \E m \in 0..(MaxLines - n) :
       \E nl \in [1..n -> ScriptLines], ul \in [1..m -> ScriptLines] :
       \E hasNoTx \in BOOLEAN, hasUp \in BOOLEAN, hasDown \in BOOLEAN :
          /\ ~hasNoTx => nl = <<>>
          /\ ~hasUp => ul = <<>>
          /\ files = [notx |-> IF hasNoTx THEN JoinLines(nl) ELSE NoFile,
                      up |-> IF hasUp THEN JoinLines(ul) ELSE NoFile,
                      down |-> IF hasDown THEN DownText ELSE NoFile]
    /\ pc = "notx"
    /\ cur = "none"
    /\ script = <<>>
    /\ statements = <<>>
    /\ idx = 0
    /\ execRet = [notx |-> NotYet, up |-> NotYet]
    /\ migration = [Name |-> MigrationName, UpScript |-> <<>>,
                    DownScript |-> <<>>, NoTransactionScript |-> <<>>]
    /\ txState = "none"
    /\ txPending = {}
    /\ ledger = {PriorRow}
    /\ applied = {}
    /\ sent = <<>>
    /\ retval = NotYet

\* AutoRollback never deferred: the transaction is left as it is
AutoRollbackMissing ==
    UNCHANGED <<txState, txPending>>

\* tx.AutoRollback(), deferred once conn.Begin() succeeded: rolls tx back
\* unless it was committed
AutoRollback ==
    /\ txState' = IF txState = "open" THEN "rolledback" ELSE txState
    /\ txPending' = IF txState = "open" THEN {} ELSE txPending

\* runUpScripts returns e: the deferred calls run
Return(e) ==
    /\ pc' = "done"
    /\ retval' = e
    /\ AutoRollback

\* execFile returns the script read: runUpScripts stores it and goes on
ExecFileOk ==
    /\ execRet' = [execRet EXCEPT ![cur] = Nil]
    /\ IF cur = "notx"
       THEN /\ migration' = [migration EXCEPT !.NoTransactionScript = script]
            /\ pc' = "down"
       ELSE /\ migration' = [migration EXCEPT !.UpScript = script]
            /\ pc' = "insert"
    /\ UNCHANGED <<verifyVars, textVars, files, cur, script, statements, idx,
                   txState, txPending, ledger, applied, retval>>

\* execFile returns execScript's error and runUpScripts returns it
ExecFileErr(e) ==
    /\ execRet' = [execRet EXCEPT ![cur] = e]
    /\ Return(e)
    /\ UNCHANGED <<verifyVars, textVars, files, cur, script, statements, idx,
                   migration, ledger, applied>>

\* execFile reads the file and execScript splits the script
ExecFileRead(src) ==
    /\ files[src] # NoFile
    /\ cur' = src
    /\ script' = files[src]
    /\ statements' = Split(files[src])
    /\ idx' = 1
    /\ pc' = "exec"
    /\ UNCHANGED <<verifyVars, textVars, files, execRet, migration, txState,
                   txPending, ledger, applied, sent, retval>>

\* execFile cannot read the file
ExecFileReadErr(src) ==
    /\ Return(IoError(src))
    /\ UNCHANGED <<verifyVars, textVars, files, cur, script, statements, idx,
                   execRet, migration, ledger, applied, sent>>

\* notx.sql does not exist
NoTxAbsent ==
    /\ pc = "notx"
    /\ files.notx = NoFile
    /\ pc' = "down"
    /\ UNCHANGED <<verifyVars, textVars, files, cur, script, statements, idx,
                   execRet, migration, txState, txPending, ledger, applied,
                   sent, retval>>

NoTxRead ==
    /\ pc = "notx"
    /\ ExecFileRead("notx")

NoTxReadErr ==
    /\ pc = "notx"
    /\ files.notx # NoFile
    /\ ExecFileReadErr("notx")

\* the loop of execScript has run through every statement
ExecScriptEnd ==
    /\ pc = "exec"
    /\ idx > Len(statements)
    /\ ExecFileOk
    /\ UNCHANGED sent

\* statement == "": continue
SkipEmptyStatement ==
    /\ pc = "exec"
    /\ idx <= Len(statements)
    /\ statements[idx] = <<>>
    /\ idx' = idx + 1
    /\ UNCHANGED <<verifyVars, textVars, files, pc, cur, script, statements,
                   execRet, migration, txState, txPending, ledger, applied,
                   sent, retval>>

\* str.IsEmpty(statement): return nil
BlankStatement ==
    /\ pc = "exec"
    /\ idx <= Len(statements)
    /\ statements[idx] # <<>>
    /\ IsEmpty(statements[idx])
    /\ ExecFileOk
    /\ UNCHANGED sent

Executable ==
    /\ pc = "exec"
    /\ idx <= Len(statements)
    /\ ~IsEmpty(statements[idx])

\* ExecOk with the loop staying on the statement
ExecOkRepeats ==
    /\ Executable
    /\ sent' = Append(sent, Submission("conn", cur, idx, statements[idx], "ok"))
    /\ applied' = applied \cup {<<cur, idx>>}
    /\ UNCHANGED <<verifyVars, textVars, files, pc, cur, script, statements,
                   idx, execRet, migration, txState, txPending, ledger,
                   retval>>

\* conn.SQL(statement).Exec() succeeds
ExecOk ==
    /\ Executable
    /\ sent' = Append(sent, Submission("conn", cur, idx, statements[idx], "ok"))
    /\ applied' = applied \cup {<<cur, idx>>}
    /\ idx' = idx + 1
    /\ UNCHANGED <<verifyVars, textVars, files, pc, cur, script, statements,
                   execRet, migration, txState, txPending, ledger, retval>>

\* ExecNoRowsAffected with the benign error returned like any other
ExecNoRowsReturned ==
    /\ Executable
    /\ sent' = Append(sent, Submission("conn", cur, idx, statements[idx],
                                        "norows"))
    /\ ExecFileErr(DbError(cur, idx))

\* conn.SQL(statement).Exec() fails with "no RowsAffected": continue. The
\* statement may or may not have taken effect.
ExecNoRowsAffected ==
    /\ Executable
    /\ sent' = Append(sent, Submission("conn", cur, idx, statements[idx],
                                        "norows"))
    /\ \E took \in BOOLEAN :
          applied' = IF took THEN applied \cup {<<cur, idx>>} ELSE applied
    /\ idx' = idx + 1
    /\ UNCHANGED <<verifyVars, textVars, files, pc, cur, script, statements,
                   execRet, migration, txState, txPending, ledger, retval>>

\* ExecFailed with the error dropped by the caller of execScript
ExecFailedIgnored ==
    /\ Executable
    /\ sent' = Append(sent, Submission("conn", cur, idx, statements[idx],
                                        "fatal"))
    /\ ExecFileOk

\* ExecFailed with the loop going on after the error
ExecFailedContinues ==
    /\ Executable
    /\ sent' = Append(sent, Submission("conn", cur, idx, statements[idx],
                                        "fatal"))
    /\ execRet' = [execRet EXCEPT ![cur] = DbError(cur, idx)]
    /\ idx' = idx + 1
    /\ UNCHANGED <<verifyVars, textVars, files, pc, cur, script, statements,
                   migration, txState, txPending, ledger, applied, retval>>

\* conn.SQL(statement).Exec() fails with another error: return err
ExecFailed ==
    /\ Executable
    /\ sent' = Append(sent, Submission("conn", cur, idx, statements[idx],
                                        "fatal"))
    /\ ExecFileErr(DbError(cur, idx))

\* down.sql does not exist
DownAbsent ==
    /\ pc = "down"
    /\ files.down = NoFile
    /\ pc' = "begin"
    /\ UNCHANGED <<verifyVars, textVars, files, cur, script, statements, idx,
                   execRet, migration, txState, txPending, ledger, applied,
                   sent, retval>>

\* DownRead with down.sql run through execFile as notx.sql is
DownReadExecuted ==
    /\ pc = "down"
    /\ files.down # NoFile
    /\ migration' = [migration EXCEPT !.DownScript = files.down]
    /\ sent' = Append(sent, Submission("conn", "down", 1, files.down, "ok"))
    /\ pc' = "begin"
    /\ UNCHANGED <<verifyVars, textVars, files, cur, script, statements, idx,
                   execRet, txState, txPending, ledger, applied, retval>>

\* down.sql is read and stored
DownRead ==
    /\ pc = "down"
    /\ files.down # NoFile
    /\ migration' = [migration EXCEPT !.DownScript = files.down]
    /\ pc' = "begin"
    /\ UNCHANGED <<verifyVars, textVars, files, cur, script, statements, idx,
                   execRet, txState, txPending, ledger, applied, sent,
                   retval>>

DownReadErr ==
    /\ pc = "down"
    /\ files.down # NoFile
    /\ Return(IoError("down"))
    /\ UNCHANGED <<verifyVars, textVars, files, cur, script, statements, idx,
                   execRet, migration, ledger, applied, sent>>

\* conn.Begin() succeeds; tx.AutoRollback() is deferred
Begin ==
    /\ pc = "begin"
    /\ txState' = "open"
    /\ pc' = "up"
    /\ UNCHANGED <<verifyVars, textVars, files, cur, script, statements, idx,
                   execRet, migration, txPending, ledger, applied, sent,
                   retval>>

BeginErr ==
    /\ pc = "begin"
    /\ Return(BeginError)
    /\ UNCHANGED <<verifyVars, textVars, files, cur, script, statements, idx,
                   execRet, migration, ledger, applied, sent>>

\* execFile(ctx, conn, up.sql)
UpRead ==
    /\ pc = "up"
    /\ ExecFileRead("up")

UpReadErr ==
    /\ pc = "up"
    /\ ExecFileReadErr("up")

\* tx.SQL(insert into dat__migrations ...).Exec() succeeds
InsertOk ==
    /\ pc = "insert"
    /\ sent' = Append(sent, Submission("tx", "ledger", 1, <<>>, "ok"))
    /\ txPending' = txPending \cup {LedgerRow(migration)}
    /\ pc' = "commit"
    /\ UNCHANGED <<verifyVars, textVars, files, cur, script, statements, idx,
                   execRet, migration, txState, ledger, applied, retval>>

InsertErr ==
    /\ pc = "insert"
    /\ sent' = Append(sent, Submission("tx", "ledger", 1, <<>>, "fatal"))
    /\ Return(DbError("ledger", 1))
    /\ UNCHANGED <<verifyVars, textVars, files, cur, script, statements, idx,
                   execRet, migration, ledger, applied>>

\* tx.Commit() succeeds; return nil (the deferred AutoRollback finds tx
\* committed and does nothing)
CommitOk ==
    /\ pc = "commit"
    /\ ledger' = ledger \cup txPending
    /\ txPending' = {}
    /\ txState' = "committed"
    /\ pc' = "done"
    /\ retval' = Nil
    /\ UNCHANGED <<verifyVars, textVars, files, cur, script, statements, idx,
                   execRet, migration, applied, sent>>

\* tx.Commit() fails and its error is dropped: return nil; the deferred
\* AutoRollback closes the transaction
CommitErr ==
    /\ pc = "commit"
    /\ Return(Nil)
    /\ UNCHANGED <<verifyVars, textVars, files, cur, script, statements, idx,
                   execRet, migration, ledger, applied, sent>>

RunNext ==
    \/ NoTxAbsent \/ NoTxRead \/ NoTxReadErr
    \/ ExecScriptEnd \/ SkipEmptyStatement \/ BlankStatement
    \/ ExecOk \/ ExecNoRowsAffected \/ ExecFailed
    \/ DownAbsent \/ DownRead \/ DownReadErr
    \/ Begin \/ BeginErr
    \/ UpRead \/ UpReadErr
    \/ InsertOk \/ InsertErr
    \/ CommitOk \/ CommitErr

----------------------------------------------------------------------------
(* verifyMigrationsHistory                                                 *)

NameChars == {1, 2}
\* the migration names: the non-empty texts of at most MaxNameLen characters
Names == SeqsUpTo(NameChars, MaxNameLen) \ {<<>>}

RECURSIVE StrLess(_, _)
\* a < b on Go strings: bytewise, a proper prefix is the lesser
StrLess(a, b) ==
    IF b = <<>> THEN FALSE
    ELSE IF a = <<>> THEN TRUE
    ELSE IF a[1] # b[1] THEN a[1] < b[1]
    ELSE StrLess(Tail(a), Tail(b))

\* the 0-based index of the first migration named name, or -1
migrationFindIndexOf(migrations, name) ==
    IF \E i \in 1..Len(migrations) : migrations[i] = name
    THEN (CHOOSE i \in 1..Len(migrations) :
             /\ migrations[i] = name
             /\ \A j \in 1..(i - 1) : migrations[j] # name) - 1
    ELSE -1

\* MissingLocally looking at the last ledger entry only
MissingLocallyLastOnly(local, db) ==
    SelectSeq(<<db[Len(db)]>>, LAMBDA n : migrationFindIndexOf(local, n) = -1)

\* first loop: the names in the database that do not exist locally, as
\* logged
MissingLocally(local, db) ==
    SelectSeq(db, LAMBDA n : migrationFindIndexOf(local, n) = -1)

\* NotMigrated with the comparison turned round
NotMigratedReversed(local, db) ==
    LET lastMigration == db[Len(db)]
    IN  SelectSeq(local, LAMBDA n : /\ StrLess(lastMigration, n)
                                    /\ migrationFindIndexOf(db, n) = -1)

\* second loop: the local names less than the last name in the database
\* and not in the database, as logged
NotMigrated(local, db) ==
    LET lastMigration == db[Len(db)]
    IN  SelectSeq(local, LAMBDA n : /\ StrLess(n, lastMigration)
                                    /\ migrationFindIndexOf(db, n) = -1)

\* the migration names in the text of the error returned: fmt.Errorf is
\* given the name of the database only
ErrorNames(logged) == <<>>

\* verifyMigrationsHistory with the test for an empty list made on the
\* local list, an empty ledger making every local migration unapplied
verifyEmptyLocalOnly(local, db) ==
    IF Len(local) = 0
    THEN [done |-> TRUE, err |-> FALSE, logged |-> <<>>, named |-> <<>>]
    ELSE LET logged == IF Len(db) = 0 THEN local
                       ELSE MissingLocally(local, db) \o NotMigrated(local, db)
         IN  [done |-> TRUE, err |-> logged # <<>>, logged |-> logged,
              named |-> ErrorNames(logged)]

\* verifyMigrationsHistory without its second loop
verifyFirstLoopOnly(local, db) ==
    IF Len(db) = 0
    THEN [done |-> TRUE, err |-> FALSE, logged |-> <<>>, named |-> <<>>]
    ELSE LET logged == MissingLocally(local, db)
         IN  [done |-> TRUE, err |-> logged # <<>>, logged |-> logged,
              named |-> ErrorNames(logged)]

\* verifyMigrationsHistory(ctx, local, db): whether it returns an error,
\* the names it logs and the names its error gives
verifyMigrationsHistory(local, db) ==
    IF Len(db) = 0
    THEN [done |-> TRUE, err |-> FALSE, logged |-> <<>>, named |-> <<>>]
    ELSE LET logged == MissingLocally(local, db) \o NotMigrated(local, db)
         IN  [done |-> TRUE, err |-> logged # <<>>, logged |-> logged,
              named |-> ErrorNames(logged)]

Unverified == [done |-> FALSE, err |-> FALSE, logged |-> <<>>, named |-> <<>>]

VerifyInit ==
    /\ \E n \in 0..MaxMigrations : \E m \in 0..(MaxMigrations - n) :
          /\ localMigrations \in [1..n -> Names]
          /\ dbMigrations \in [1..m -> Names]
    /\ verified = Unverified

\* the runner calls verifyMigrationsHistory before running anything
Verify ==
    /\ pc = "verify"
    /\ ~verified.done
    /\ verified' = verifyMigrationsHistory(localMigrations, dbMigrations)
    /\ UNCHANGED <<runVars, textVars, localMigrations, dbMigrations>>

----------------------------------------------------------------------------
(* parseOptions, the split of a script, extractLineColumn                  *)

Unset == "unset"

\* config.OrString(key, def)
OrString(value, def) == IF value = Unset THEN def ELSE value

\* parseOptions: the options read from the configuration (the batch
\* separator only)
parseOptions(config) ==
    [BatchSeparator |-> OrString(config.batchSeparator, <<"G", "O">>)]

\* the characters of the scripts that are split
SplitChars == {"a", "G", "O", NL}
\* the batch separators that are configured, if one is
ConfiguredSeparators == {Unset, <<"G", "O">>, <<"O">>}

NoSplit == [BatchSeparator |-> <<"G", "O">>, script |-> <<>>,
            statements |-> <<>>, done |-> FALSE]

SplitInit ==
    \E n \in 0..MaxScriptLen :
    \E text \in [1..n -> SplitChars], sep \in ConfiguredSeparators :
        splitCall = [NoSplit EXCEPT
                       !.BatchSeparator =
                         parseOptions([batchSeparator |-> sep]).BatchSeparator,
                       !.script = text]

\* execScript splits the script: options.BatchSeparator is not looked at
SplitScript ==
    /\ ~splitCall.done
    /\ splitCall' = [splitCall EXCEPT !.statements = Split(splitCall.script),
                                      !.done = TRUE]
    /\ UNCHANGED <<runVars, verifyVars, locateCall>>

Digits == <<"0", "1", "2", "3", "4", "5", "6", "7", "8", "9">>
IsDigit(c) == \E d \in 1..Len(Digits) : Digits[d] = c
DigitValue(c) == (CHOOSE d \in 1..Len(Digits) : Digits[d] = c) - 1

RECURSIVE AtoiFrom(_, _)
AtoiFrom(pos, n) ==
    IF pos = <<>> THEN n
    ELSE AtoiFrom(Tail(pos), 10 * n + DigitValue(Head(pos)))

\* strconv.Atoi of a text without sign
Atoi(pos) ==
    IF pos # <<>> /\ \A i \in 1..Len(pos) : IsDigit(pos[i])
    THEN [err |-> FALSE, value |-> AtoiFrom(pos, 0)]
    ELSE [err |-> TRUE, value |-> 0]

RECURSIVE LineColumnLoop(_, _, _, _, _)
\* the loop of extractLineColumn; i is Go's index, script[i] is s[i + 1]
LineColumnLoop(s, position, i, line, column) ==
    LET max == Len(s)
    IN  IF ~(i < max /\ i < position) THEN <<line, column>>
        ELSE IF s[i + 1] = "\r"
        THEN LET i2 == IF i + 1 < max /\ s[i + 2] = NL THEN i + 1 ELSE i
             IN  IF i2 < max - 1
                 THEN LineColumnLoop(s, position, i2 + 1, line + 1, 0)
                 ELSE LineColumnLoop(s, position, i2 + 1, line, column)
        ELSE IF s[i + 1] = NL
        THEN IF i < max - 1
             THEN LineColumnLoop(s, position, i + 1, line + 1, 0)
             ELSE LineColumnLoop(s, position, i + 1, line, column)
        ELSE LineColumnLoop(s, position, i + 1, line, column + 1)

\* extractLineColumn(script, pos): line, column and whether it failed
extractLineColumn(s, pos) ==
    LET position == Atoi(pos)
    IN  IF position.err THEN [line |-> 0, column |-> 0, err |-> TRUE]
        ELSE LET lc == LineColumnLoop(s, position.value + 1, 0, 1, 0)
             IN  [line |-> lc[1], column |-> lc[2], err |-> FALSE]

\* the characters of the scripts positions are looked up in
LocateChars == {"a", "\r", NL}
\* the positions the database reports, and one that is no number
Positions == {<<Digits[d]>> : d \in 1..Len(Digits)} \cup {<<"x">>}

NoLocate == [script |-> <<>>, pos |-> <<"0">>, line |-> 0, column |-> 0,
             err |-> FALSE, done |-> FALSE]

LocateInit ==
    \E n \in 0..MaxScriptLen :
    \E text \in [1..n -> LocateChars], pos \in Positions :
        locateCall = [NoLocate EXCEPT !.script = text, !.pos = pos]

\* sprintPQError calls extractLineColumn(script, e.Position)
Locate ==
    /\ ~locateCall.done
    /\ LET r == extractLineColumn(locateCall.script, locateCall.pos)
       IN  locateCall' = [locateCall EXCEPT !.line = r.line,
                                            !.column = r.column,
                                            !.err = r.err, !.done = TRUE]
    /\ UNCHANGED <<runVars, verifyVars, splitCall>>

----------------------------------------------------------------------------
(* Specifications                                                          *)

\* no script is being split, no position looked up
TextIdle ==
    /\ splitCall = NoSplit
    /\ locateCall = NoLocate

\* no list is being verified
VerifyIdle ==
    /\ localMigrations = <<>>
    /\ dbMigrations = <<>>
    /\ verified = Unverified

\* no migration is being run
RunIdle ==
    /\ files = [notx |-> NoFile, up |-> NoFile, down |-> NoFile]
    /\ pc = "verify"
    /\ cur = "none"
    /\ script = <<>>
    /\ statements = <<>>
    /\ idx = 0
    /\ execRet = [notx |-> NotYet, up |-> NotYet]
    /\ migration = [Name |-> MigrationName, UpScript |-> <<>>,
                    DownScript |-> <<>>, NoTransactionScript |-> <<>>]
    /\ txState = "none"
    /\ txPending = {}
    /\ ledger = {PriorRow}
    /\ applied = {}
    /\ sent = <<>>
    /\ retval = NotYet

\* one call of runUpScripts
Init == RunInit /\ VerifyIdle /\ TextIdle

Next == RunNext

Spec == Init /\ [][Next]_vars

\* one call of verifyMigrationsHistory
InitVerify == RunIdle /\ VerifyInit /\ TextIdle

NextVerify == Verify

SpecVerify == InitVerify /\ [][NextVerify]_vars

\* one split of a script
InitSplit ==
    /\ RunIdle /\ VerifyIdle
    /\ SplitInit
    /\ locateCall = NoLocate

NextSplit == SplitScript

SpecSplit == InitSplit /\ [][NextSplit]_vars

\* one call of extractLineColumn
InitLocate ==
    /\ RunIdle /\ VerifyIdle
    /\ splitCall = NoSplit
    /\ LocateInit

NextLocate == Locate

SpecLocate == InitLocate /\ [][NextLocate]_vars

----------------------------------------------------------------------------
(* Properties of runUpScripts and execScript (checked under Spec)          *)

ScriptFiles == {"notx", "up"}

\* the statements of file f that are neither empty nor blank
ExecutableOf(f) ==
    {i \in 1..Len(Split(files[f])) : ~IsEmpty(Split(files[f])[i])}

\* statement i of file f was submitted to the database
Submitted(f, i) ==
    \E k \in 1..Len(sent) : sent[k].src = f /\ sent[k].idx = i

\* statement i of file f was submitted and the database answered o
Answered(f, i, o) ==
    \E k \in 1..Len(sent) :
        sent[k].src = f /\ sent[k].idx = i /\ sent[k].outcome = o

Failed(f) ==
    \E k \in 1..Len(sent) : sent[k].src = f /\ sent[k].outcome = "fatal"

\* the ledger holds a row of the migration being run
HasRow == \E r \in ledger : r.Name = migration.Name

\* the durable effects of the statements of file f that succeeded
EffectsOf(f) == {e \in applied : e[1] = f /\ Answered(f, e[2], "ok")}

\* C1: when a later up statement fails (not benignly) after an earlier one
\* succeeded, runUpScripts returns with no ledger row of the migration and
\* with no effect of the up statements durable.
C1_UpFailureRollsBack ==
    ( /\ pc = "done"
      /\ retval.type = "db" /\ retval.src = "up"
      /\ \E i \in 1..(retval.idx - 1) : Answered("up", i, "ok") )
    => (~HasRow /\ EffectsOf("up") = {})

\* C2: when every up statement succeeded and the ledger insert fails,
\* runUpScripts returns with neither the ledger row nor any effect of the
\* up script durable.
C2_InsertFailureRollsBack ==
    (pc = "done" /\ retval = DbError("ledger", 1))
    => (~HasRow /\ EffectsOf("up") = {})

\* C3: runUpScripts returns nil only if the transaction holding the ledger
\* row was committed.
C3_SuccessOnlyIfCommitted ==
    (pc = "done" /\ retval = Nil) => (txState = "committed" /\ HasRow)

\* C4: once a statement of notx.sql has failed, runUpScripts has returned
\* that error, no transaction was begun, nothing of up.sql and no ledger
\* insert was submitted, and the ledger is what it was before the call.
C4_NoTxFailureStopsBeforeTx ==
    \A k \in 1..Len(sent) :
        (sent[k].src = "notx" /\ sent[k].outcome = "fatal")
        => /\ pc = "done"
           /\ retval = DbError("notx", sent[k].idx)
           /\ txState = "none"
           /\ txPending = {}
           /\ \A j \in 1..Len(sent) : sent[j].src = "notx"
           /\ ledger = {PriorRow}

\* a notx statement failed for a migration whose up.sql has statements
C4_Witness ==
    /\ pc = "done"
    /\ Failed("notx")
    /\ files.up # NoFile
    /\ ExecutableOf("up") # {}

\* C5: when a transaction has been begun, every statement of notx.sql has
\* been executed before, and the effects of the notx statements that
\* succeeded are durable whatever happens to the transaction.
C5_NoTxCompleteBeforeTx ==
    (txState # "none" /\ files.notx # NoFile)
    => /\ \A i \in ExecutableOf("notx") : Submitted("notx", i)
       /\ \A i \in ExecutableOf("notx") :
              Answered("notx", i, "ok") => <<"notx", i>> \in applied

\* C6: a blank segment is skipped: when execScript has returned nil, every
\* statement of the script that is not blank was executed.
C6_BlankSegmentSkipped ==
    \A f \in ScriptFiles :
        (files[f] # NoFile /\ execRet[f] = Nil)
        => \A i \in ExecutableOf(f) : Submitted(f, i)

\* C7: once a statement has failed with a fatal error, no later statement
\* is submitted to the connection and execScript has returned the error of
\* that statement.
C7_FatalErrorAborts ==
    \A k \in 1..Len(sent) :
        (sent[k].via = "conn" /\ sent[k].outcome = "fatal")
        => /\ \A j \in (k + 1)..Len(sent) : sent[j].via # "conn"
           /\ execRet[sent[k].src] = DbError(sent[k].src, sent[k].idx)

\* a statement failed and statements that are not blank follow it
C7_Witness ==
    \E k \in 1..Len(sent) :
        /\ sent[k].via = "conn" /\ sent[k].outcome = "fatal"
        /\ \E i \in ExecutableOf(sent[k].src) : i > sent[k].idx

\* C8: a "no RowsAffected" error of a statement is not returned, the loop
\* moves on to the next segment, and execScript returns nil unless a
\* statement fails fatally.
C8_NoRowsAffectedAbsorbed ==
    \A k \in 1..Len(sent) :
        sent[k].outcome = "norows"
        => LET f == sent[k].src
               i == sent[k].idx
           IN  /\ execRet[f] # DbError(f, i)
               /\ cur = f => idx > i
               /\ ~Failed(f) => ~IsError(execRet[f])
               /\ (~Failed(f) /\ (cur # f \/ pc # "exec")) => execRet[f] = Nil

\* a benign error, then a later statement of the same script executed, and
\* execScript returned nil
C8_Witness ==
    \E k \in 1..Len(sent) :
        /\ sent[k].outcome = "norows"
        /\ \E j \in (k + 1)..Len(sent) :
              sent[j].src = sent[k].src /\ sent[j].idx > sent[k].idx
        /\ execRet[sent[k].src] = Nil

\* C16: the down script is only read and stored in migration.DownScript
\* and in the ledger row: nothing of down.sql is ever submitted to the
\* database.
C16_DownScriptOnlyStored ==
    /\ \A k \in 1..Len(sent) :
          /\ sent[k].src # "down"
          /\ sent[k].via = "conn"
             => sent[k].text = Split(files[sent[k].src])[sent[k].idx]
    /\ (files.down # NoFile /\ txState # "none")
       => migration.DownScript = files.down
    /\ \A r \in ledger \cup txPending :
          (r.Name = migration.Name /\ files.down # NoFile)
          => r.DownScript = files.down

\* a migration with a down.sql was run and recorded
C16_Witness ==
    /\ pc = "done"
    /\ files.down # NoFile
    /\ HasRow
    /\ \E k \in 1..Len(sent) : sent[k].src = "up"

\* the errors runUpScripts returns for a migration without notx.sql, when
\* no notx side effect can have been applied
ErrorsWithoutNoTx ==
    {BeginError, IoError("down"), IoError("up"), DbError("ledger", 1)}
    \cup {DbError("up", i) : i \in 1..(MaxLines + 1)}

\* C17: a failure reported after the notx script was applied is not one of
\* the failures reported when no notx side effect was applied.
C17_NoTxFailureDistinct ==
    ( /\ pc = "done"
      /\ IsError(retval)
      /\ execRet.notx = Nil
      /\ EffectsOf("notx") # {} )
    => retval \notin ErrorsWithoutNoTx

\* the errors runUpScripts returns once conn.Begin() has succeeded
ErrorsAfterBegin ==
    {IoError("up"), DbError("ledger", 1)}
    \cup {DbError("up", i) : i \in 1..(MaxLines + 1)}

\* C18: when runUpScripts has returned, a transaction it began is committed
\* or rolled back; it is rolled back after every failure between begin and
\* commit, and a committed ledger row stays.
C18_TransactionClosed ==
    /\ pc = "done" => (txState # "open" /\ txPending = {})
    /\ (pc = "done" /\ retval \in ErrorsAfterBegin) => txState = "rolledback"
    /\ txState = "committed" => HasRow

\* the ledger insert failed inside the transaction
C18_Witness ==
    /\ pc = "done"
    /\ retval = DbError("ledger", 1)
    /\ txState = "rolledback"

\* C19: the statements submitted to the connection for a script are
\* segments of that script, in split order, none twice.
C19_SubmittedInSplitOrder ==
    /\ \A k \in 1..Len(sent) :
          sent[k].via = "conn"
          => /\ sent[k].src \in ScriptFiles
             /\ sent[k].idx \in 1..Len(Split(files[sent[k].src]))
             /\ sent[k].text = Split(files[sent[k].src])[sent[k].idx]
    /\ \A j \in 1..Len(sent) : \A k \in (j + 1)..Len(sent) :
          (sent[j].via = "conn" /\ sent[k].via = "conn"
           /\ sent[j].src = sent[k].src)
          => sent[j].idx < sent[k].idx

\* two statements of up.sql were submitted and a segment between them was
\* not
C19_Witness ==
    \E j \in 1..Len(sent) : \E k \in (j + 1)..Len(sent) :
        /\ sent[j].src = "up" /\ sent[k].src = "up"
        /\ sent[k].idx > sent[j].idx + 1

----------------------------------------------------------------------------
(* Properties of verifyMigrationsHistory (checked under SpecVerify)        *)

InList(name, migrations) ==
    \E j \in 1..Len(migrations) : migrations[j] = name

\* a name of the ledger is absent from the local list
LedgerNameMissing ==
    \E i \in 1..Len(dbMigrations) : ~InList(dbMigrations[i], localMigrations)

\* a local name is less than the last ledger name and absent from the
\* ledger
OlderLocalUnapplied ==
    /\ Len(dbMigrations) > 0
    /\ \E i \in 1..Len(localMigrations) :
          /\ StrLess(localMigrations[i], dbMigrations[Len(dbMigrations)])
          /\ ~InList(localMigrations[i], dbMigrations)

\* C9: verifyMigrationsHistory returns an error whenever the ledger holds
\* a name that is absent from the local list.
C9_LedgerNameMissingFails ==
    (verified.done /\ LedgerNameMissing) => verified.err

\* the only fault is a ledger name missing locally, and it is not the last
\* ledger entry
C9_Witness ==
    /\ verified.done
    /\ LedgerNameMissing
    /\ ~OlderLocalUnapplied
    /\ InList(dbMigrations[Len(dbMigrations)], localMigrations)

\* C10: for a non-empty ledger, verifyMigrationsHistory returns an error
\* whenever a local name is less than the last ledger name and absent from
\* the ledger.
C10_OlderLocalUnappliedFails ==
    (verified.done /\ OlderLocalUnapplied) => verified.err

\* the only fault is an older local name that is not in the ledger
C10_Witness ==
    /\ verified.done
    /\ OlderLocalUnapplied
    /\ ~LedgerNameMissing

\* the names verifyMigrationsHistory has to report: the ledger names
\* missing locally and the older local names that are not in the ledger
Offending ==
    {dbMigrations[i] : i \in {j \in 1..Len(dbMigrations) :
                                 ~InList(dbMigrations[j], localMigrations)}}
    \cup {localMigrations[i] : i \in {j \in 1..Len(localMigrations) :
             /\ StrLess(localMigrations[j], dbMigrations[Len(dbMigrations)])
             /\ ~InList(localMigrations[j], dbMigrations)}}

\* C11: when verifyMigrationsHistory fails, the error it returns names
\* every offending migration.
C11_ErrorNamesEveryOffender ==
    (verified.done /\ verified.err)
    => \A n \in Offending : InList(n, verified.named)

\* C12: with an empty ledger verifyMigrationsHistory succeeds, whatever the
\* local list is.
C12_EmptyLedgerSucceeds ==
    (verified.done /\ Len(dbMigrations) = 0) => ~verified.err

\* an empty ledger and local migrations
C12_Witness ==
    /\ verified.done
    /\ Len(dbMigrations) = 0
    /\ Len(localMigrations) > 1

\* the list is in ascending order, no name twice
SortedUnique(migrations) ==
    \A i \in 1..(Len(migrations) - 1) :
        StrLess(migrations[i], migrations[i + 1])

\* the ledger is a prefix of the local list
LedgerIsPrefix ==
    /\ Len(dbMigrations) <= Len(localMigrations)
    /\ \A i \in 1..Len(dbMigrations) : dbMigrations[i] = localMigrations[i]

\* C20: for sorted lists of unique names and a non-empty ledger,
\* verifyMigrationsHistory succeeds exactly when the ledger is a prefix of
\* the local list.
C20_SuccessIffLedgerIsPrefix ==
    ( /\ verified.done
      /\ Len(dbMigrations) > 0
      /\ SortedUnique(localMigrations)
      /\ SortedUnique(dbMigrations) )
    => (~verified.err <=> LedgerIsPrefix)

\* sorted lists, the ledger a prefix of a longer local list, and success
C20_Witness ==
    /\ verified.done
    /\ Len(dbMigrations) > 0
    /\ Len(localMigrations) > Len(dbMigrations)
    /\ SortedUnique(localMigrations)
    /\ SortedUnique(dbMigrations)
    /\ LedgerIsPrefix
    /\ ~verified.err

----------------------------------------------------------------------------
(* Properties of the split of a script (checked under SpecSplit)           *)

\* position p of s starts a line that is tok and is ended by a newline
SeparatorLineAt(s, tok, p) ==
    /\ p = 1 \/ s[p - 1] = NL
    /\ p + Len(tok) <= Len(s)
    /\ SubSeq(s, p, p + Len(tok) - 1) = tok
    /\ s[p + Len(tok)] = NL

RECURSIVE SplitOn(_, _, _, _)
\* s from position beg cut at the separator lines tok found from p on
SplitOn(s, tok, beg, p) ==
    IF p > Len(s) THEN <<SubSeq(s, beg, Len(s))>>
    ELSE IF SeparatorLineAt(s, tok, p)
         THEN <<SubSeq(s, beg, p - 1)>>
              \o SplitOn(s, tok, p + Len(tok) + 1, p + Len(tok) + 1)
         ELSE SplitOn(s, tok, beg, p + 1)

RECURSIVE JoinWith(_, _)
\* the segments put together again, sep between two of them
JoinWith(segments, sep) ==
    IF Len(segments) = 0 THEN <<>>
    ELSE IF Len(segments) = 1 THEN segments[1]
    ELSE segments[1] \o sep \o JoinWith(Tail(segments), sep)

GO == <<"G", "O">>

\* C13: the script is split at the lines that are the configured batch
\* separator; with another token than GO configured, a GO line does not
\* separate.
C13_SplitOnConfiguredSeparator ==
    splitCall.done
    => splitCall.statements
         = SplitOn(splitCall.script, splitCall.BatchSeparator, 1, 1)

\* the number of separator lines GO of the script split
SeparatorLines ==
    Cardinality({p \in 1..Len(splitCall.script) :
                    SeparatorLineAt(splitCall.script, GO, p)})

\* C15: a script with k separator lines is split into k + 1 segments that,
\* with the separator line between them, give the script again; without a
\* separator line the script is the only segment.
C15_SplitPreservesText ==
    splitCall.done
    => /\ Len(splitCall.statements) = SeparatorLines + 1
       /\ JoinWith(splitCall.statements, GO \o <<NL>>) = splitCall.script
       /\ SeparatorLines = 0 => splitCall.statements = <<splitCall.script>>

\* a script with two separator lines, the last one ending it
C15_Witness ==
    /\ splitCall.done
    /\ SeparatorLines = 2
    /\ splitCall.statements[1] # <<>>
    /\ splitCall.statements[3] = <<>>

----------------------------------------------------------------------------
(* Properties of extractLineColumn (checked under SpecLocate)              *)

\* every line of s ends with \n, or every line of s ends with \r\n
UniformLineEndings(s) ==
    \/ \A i \in 1..Len(s) : s[i] # "\r"
    \/ /\ \A i \in 1..Len(s) : s[i] = "\r" => (i < Len(s) /\ s[i + 1] = NL)
       /\ \A i \in 1..Len(s) : s[i] = NL => (i > 1 /\ s[i - 1] = "\r")

\* the position in s of the character at line and column, both 1-based:
\* the lines before it end with a newline each
WalkTo(s, line, column) ==
    LET newlines == {i \in 1..Len(s) : s[i] = NL}
        before == {i \in newlines :
                      Cardinality({j \in newlines : j <= i}) = line - 1}
    IN  IF line = 1 THEN column
        ELSE IF before = {} THEN 0
        ELSE (CHOOSE i \in before : TRUE) + column

\* C14: for a script with \n or with \r\n line endings and a 1-based
\* offset into it, the last character's included, the line and column
\* returned lead back to the character at that offset.
C14_LineColumnRoundTrip ==
    ( /\ locateCall.done
      /\ UniformLineEndings(locateCall.script)
      /\ ~Atoi(locateCall.pos).err
      /\ Atoi(locateCall.pos).value \in 1..Len(locateCall.script) )
    => /\ ~locateCall.err
       /\ WalkTo(locateCall.script, locateCall.line, locateCall.column)
            = Atoi(locateCall.pos).value

====
